---- MODULE Spec2Model ----
\* A model of the browser utilities: the global error handler (ErrorHandler:
\* its rate limiter, bounded history, sink fan-out to console, notification and
\* remote, the notification element with its timers, its queries and
\* clearErrorHistory), the resource cache of PerformanceOptimizer with
\* preloadImages, and the orientation listeners of MobileUtils.
\*
\* Time is in milliseconds, as Date.now() reports it.  One handler runs to
\* completion before the next starts (a single event loop), so every handler is
\* one action.  An event keeps the fields the handler's decisions read (id,
\* timestamp, type, severity, message, context); stack, source, line, column,
\* userAgent, url and platform are copied through by the code and are left out.
EXTENDS Integers, Sequences, FiniteSets, TLC

VARIABLES
    config,        \* ErrorHandler.config
    state,         \* ErrorHandler.state
    now,           \* the clock read by Date.now() and new Date()
    generated,     \* how many ids generateErrorId has produced
    calls,         \* how many times handleError has been entered
    ret,           \* what the last handleError or clearErrorHistory call returned
    installed,     \* global handlers installed: window.onerror wrappers, rejection listeners
    consoleCalls,  \* events passed to logToConsole, in order
    notifyCalls,   \* events passed to showUserNotification, in order
    remoteCalls,   \* events passed to sendToServer, in order
    posts,         \* events for which fetch issued a POST, in order
    pending,       \* ids of the POSTs whose promise has not settled
    warnings,      \* console.warn calls made by sendToServer's catch
    body,          \* whether document.body exists yet
    present,       \* notification elements attached to the document (by their event)
    modals,        \* ids of the events whose details modal has been opened
    timers,        \* pending setTimeout callbacks
    clicks,        \* how many user clicks have been taken
    arg,           \* the argument of the last handleError call
    result,        \* what the last query of the log returned to its caller
    writes,        \* the writes the caller has made through values it holds
    cache,         \* memoryManager.cache: its entries in insertion order
    cacheRet,      \* the last call on the cache, with what it returned
    preloads,      \* the preloadImages calls made, with their images and outcome
    created,       \* how many resource objects (images included) exist
    listeners,     \* window's listeners added by onOrientationChange
    handlers,      \* how many handlers onOrientationChange has returned
    events,        \* how many orientationchange and resize events window has had
    invoked,       \* invocations of the callbacks, in order
    removed        \* handlers for which offOrientationChange has returned

\* ErrorHandler, with the page it runs in.
handlerVars == <<config, state, now, generated, calls, ret, installed,
                 consoleCalls, notifyCalls, remoteCalls, posts, pending,
                 warnings, body, present, modals, timers, clicks>>

\* The caller of ErrorHandler: what it passed last and what it holds.
callerVars == <<arg, result, writes>>

\* PerformanceOptimizer.memoryManager and preloadImages.
cacheVars == <<cache, cacheRet, preloads, created>>

\* MobileUtils.onOrientationChange and offOrientationChange.
orientVars == <<listeners, handlers, events, invoked, removed>>

vars == <<config, state, now, generated, calls, ret, installed, consoleCalls,
          notifyCalls, remoteCalls, posts, pending, warnings, body, present,
          modals, timers, clicks, arg, result, writes, cache, cacheRet,
          preloads, created, listeners, handlers, events, invoked, removed>>

-----------------------------------------------------------------------------
\* Bounds of the model.

\* Calls of handleError in one run.
MaxCalls == 3
\* User clicks in one run.
MaxClicks == 1
\* Milliseconds of clock covered after page load.
MaxElapsed == 60000
\* Milliseconds of clock covered where the notification's timers are followed.
MaxWatched == 21000
\* Largest maxErrorsPerMinute and errorHistorySize passed to init.
MaxRate == 2
MaxSize == 3
\* Date.now() when the page loads.
PageLoadTime == 100000
\* The step by which the clock advances between timer deadlines.
TimeStep == 30000
\* The burst: the rate of the log it is reported to, how many events it holds,
\* and the pause that may fall inside it.
BurstRate == 100
MaxBurstCalls == 101
BurstGapMs == 600
\* Writes the caller makes through the values it holds.
MaxWrites == 2
\* How many half hours the page is followed while it sits idle.
MaxIdleSteps == 3
\* The cache: how many keys its callers use, the largest maxSize they pass, and
\* how many resources they store in one run.
MaxKeys == 3
MaxCacheSize == 3
MaxStores == 4
\* The longest list of urls passed to preloadImages.
MaxUrls == 3
\* Calls of onOrientationChange, and orientationchange and resize events.
MaxHandlers == 2
MaxEvents == 2

-----------------------------------------------------------------------------
\* Program constants.

\* The length of a minute in the rate limiter's threshold, 60000 / maxErrorsPerMinute.
MinuteMs == 60000
\* Delay of the notification's auto-dismiss timer.
AutoDismissMs == 10000
\* Delay between the fade-out animation and the element's removal.
FadeMs == 300
\* The age below which getErrorStats counts an event as recent.
HourMs == 3600000

DefaultConfig ==
    [showUserNotifications |-> TRUE,
     logToConsole          |-> TRUE,
     sendToServer          |-> FALSE,
     serverEndpoint        |-> "/api/errors",
     maxErrorsPerMinute    |-> 10,
     errorHistorySize      |-> 50]

InitialState ==
    [errorCount    |-> 0,
     lastErrorTime |-> 0,
     errorHistory  |-> <<>>,
     isInitialized |-> FALSE]

ErrorTypes ==
    [RUNTIME |-> "runtime", NETWORK |-> "network", RESOURCE |-> "resource",
     GAMEPLAY |-> "gameplay", INPUT |-> "input", PERFORMANCE |-> "performance"]

\* A context is a mapping JSON.stringify can serialise ("plain") or one it throws
\* on ("cyclic": a circular structure or a BigInt value).
Contexts == {"plain", "cyclic"}

NoEvent == [id |-> 0]

\* The value undefined: what a call without an argument passes, and what a
\* lookup that finds nothing returns.  An object is a record of its fields and
\* has no field typeof.
undefined == [typeof |-> "undefined"]

NoResult == [op |-> "none", value |-> undefined]

-----------------------------------------------------------------------------
\* The options the page passes to init: every combination of the sink switches
\* at the largest rate and size, and every rate and size with all sinks on.
SinkOptions ==
    [showUserNotifications : BOOLEAN,
     logToConsole          : BOOLEAN,
     sendToServer          : BOOLEAN,
     serverEndpoint        : {"/api/errors", ""},
     maxErrorsPerMinute    : {MaxRate},
     errorHistorySize      : {MaxSize}]

LimiterOptions ==
    [showUserNotifications : {TRUE},
     logToConsole          : {TRUE},
     sendToServer          : {TRUE},
     serverEndpoint        : {"/api/errors"},
     maxErrorsPerMinute    : 1..MaxRate,
     errorHistorySize      : 1..MaxSize]

\* init() called without options: options = {}.
NoOptions == <<>>

\* { ...this.config, ...options }: the options' fields override the config's.
MergeConfig(cfg, options) ==
    [k \in DOMAIN cfg |-> IF k \in DOMAIN options THEN options[k] ELSE cfg[k]]

\* The page at load: nothing reported, nothing displayed, no request made.
Quiet ==
    /\ now = PageLoadTime
    /\ generated = 0
    /\ calls = 0
    /\ ret = [op |-> "none", outcome |-> "undefined", event |-> NoEvent]
    /\ consoleCalls = <<>>
    /\ notifyCalls = <<>>
    /\ remoteCalls = <<>>
    /\ posts = <<>>
    /\ pending = {}
    /\ warnings = 0
    /\ present = {}
    /\ modals = {}
    /\ timers = {}
    /\ clicks = 0
    /\ arg = undefined
    /\ result = NoResult
    /\ writes = <<>>

\* memoryManager's object literal: an empty Map, nothing preloaded.
EmptyCache ==
    /\ cache = <<>>
    /\ cacheRet = [op |-> "none"]
    /\ preloads = <<>>
    /\ created = 0

\* No orientation listener has been added.
NoListeners ==
    /\ listeners = {}
    /\ handlers = 0
    /\ events = 0
    /\ invoked = <<>>
    /\ removed = {}

\* ErrorHandler's object literal, before init and before the document has a
\* body.
Loaded ==
    /\ config = DefaultConfig
    /\ state = InitialState
    /\ installed = [onerror |-> 0, unhandledrejection |-> 0]
    /\ body = FALSE
    /\ Quiet

\* The scripts as loaded.
Init ==
    /\ Loaded
    /\ EmptyCache
    /\ NoListeners

\* The page once init(options) has run and the document is parsed.
Initialized(options) ==
    /\ config = MergeConfig(DefaultConfig, options)
    /\ state = [InitialState EXCEPT !.isInitialized = TRUE]
    /\ installed = [onerror |-> 1, unhandledrejection |-> 1]
    /\ body = TRUE
    /\ Quiet
    /\ EmptyCache
    /\ NoListeners

-----------------------------------------------------------------------------
\* Pure parts of handleError.

\* const { ... } = errorInfo throws a TypeError when errorInfo is undefined
\* (or null): only an object can be destructured.
Destructurable(errorInfo) ==
    "typeof" \notin DOMAIN errorInfo

\* Destructuring with a default: the default applies when the field is absent.
Field(errorInfo, k, default) ==
    IF k \in DOMAIN errorInfo THEN errorInfo[k] ELSE default

\* new Date().toISOString(): the instant written out to the millisecond.
toISOString(t) ==
    [seconds |-> t \div 1000, millis |-> t % 1000]

\* new Date(timestamp).getTime(): the instant read back from the string.
getTime(iso) ==
    iso.seconds * 1000 + iso.millis

\* now - lastErrorTime < 60000 / maxErrorsPerMinute, the division being exact
\* (a JavaScript number), for maxErrorsPerMinute > 0.
InBurst(st, cfg, t) ==
    (t - st.lastErrorTime) * cfg.maxErrorsPerMinute < MinuteMs

\* A rate limiter that lets one call too many through: the check runs before
\* the counter is incremented.
RateLimit_CheckBeforeIncrement(st, cfg, t) ==
    IF InBurst(st, cfg, t)
    THEN [errorCount    |-> st.errorCount + 1,
          lastErrorTime |-> st.lastErrorTime,
          admit         |-> ~(st.errorCount > cfg.maxErrorsPerMinute)]
    ELSE [errorCount    |-> 1,
          lastErrorTime |-> t,
          admit         |-> TRUE]

\* The rate limiter: the counter and window start after the call, and whether
\* the call goes on to record the event.
RateLimit(st, cfg, t) ==
    IF InBurst(st, cfg, t)
    THEN [errorCount    |-> st.errorCount + 1,
          lastErrorTime |-> st.lastErrorTime,
          admit         |-> ~(st.errorCount + 1 > cfg.maxErrorsPerMinute)]
    ELSE [errorCount    |-> 1,
          lastErrorTime |-> t,
          admit         |-> TRUE]

\* A history that evicts with shift() instead of pop(): the newest entry goes.
Record_EvictsNewest(history, errorObj, size) ==
    LET h == <<errorObj>> \o history
    IN  IF Len(h) > size THEN SubSeq(h, 2, Len(h)) ELSE h

\* errorHistory.unshift(errorObj), then pop() when the length exceeds the size.
Record(history, errorObj, size) ==
    LET h == <<errorObj>> \o history
    IN  IF Len(h) > size THEN SubSeq(h, 1, Len(h) - 1) ELSE h

\* A notification condition that forgets the severity.
NotificationWanted_AnySeverity(cfg, severity) ==
    cfg.showUserNotifications

\* The condition under which handleError calls showUserNotification.
NotificationWanted(cfg, severity) ==
    cfg.showUserNotifications /\ severity = "high"

\* A lookup that never finds the element.
NotificationExists_Never(dom) ==
    FALSE

\* document.getElementById('global-error-notification') finds an element.
NotificationExists(dom) ==
    dom # {}

\* Whether JSON.stringify returns for an object holding this context.
Serializable(context) ==
    context # "cyclic"

\* The timer showUserNotification sets for the element it appended.
AutoDismissTimer(errorObj, t) ==
    [kind |-> "auto", el |-> errorObj.id, at |-> t + AutoDismissMs]

\* The timer that removes an element once its fade-out has played.
RemoveTimer(id, t) ==
    [kind |-> "remove", el |-> id, at |-> t + FadeMs]

-----------------------------------------------------------------------------
\* An init without its guard: every call merges and installs again.
init_Unguarded(options) ==
    /\ config' = MergeConfig(config, options)
    /\ installed' = [onerror            |-> installed.onerror + 1,
                     unhandledrejection |-> installed.unhandledrejection + 1]
    /\ state' = [state EXCEPT !.isInitialized = TRUE]
    /\ UNCHANGED <<now, generated, calls, ret, consoleCalls, notifyCalls, remoteCalls,
                   posts, pending, warnings, body, present, modals, timers, clicks>>
    /\ UNCHANGED <<callerVars, cacheVars, orientVars>>

\* init(options): merges the options, installs the global handlers, once.
init(options) ==
    /\ IF state.isInitialized
       THEN UNCHANGED <<config, state, installed>>
       ELSE /\ config' = MergeConfig(config, options)
            /\ installed' = [onerror            |-> installed.onerror + 1,
                             unhandledrejection |-> installed.unhandledrejection + 1]
            /\ state' = [state EXCEPT !.isInitialized = TRUE]
    /\ UNCHANGED <<now, generated, calls, ret, consoleCalls, notifyCalls, remoteCalls,
                   posts, pending, warnings, body, present, modals, timers, clicks>>
    /\ UNCHANGED <<callerVars, cacheVars, orientVars>>

\* handleError(errorInfo): rate limiting, the event, the history, then the
\* sinks in order (console, notification, remote).  A sink that throws ends the
\* handler there: nothing in handleError catches.
\*   showUserNotification returns early when an element exists; else it throws
\*   at document.body.appendChild while the document has no body yet, before
\*   any listener or timer is set.
\*   sendToServer returns early without an endpoint; else JSON.stringify of the
\*   event throws on a context it cannot serialise, before fetch is called.
\* Before all that, the destructuring of errorInfo throws when there is no
\* object to destructure.
handleError(errorInfo) ==
    IF ~Destructurable(errorInfo)
    THEN /\ calls' = calls + 1
         /\ arg' = errorInfo
         /\ ret' = [op |-> "handleError", outcome |-> "throw", event |-> NoEvent]
         /\ UNCHANGED <<config, state, now, generated, installed, consoleCalls,
                        notifyCalls, remoteCalls, posts, pending, warnings,
                        body, present, modals, timers, clicks>>
         /\ UNCHANGED <<result, writes, cacheVars, orientVars>>
    ELSE
    LET type     == Field(errorInfo, "type", ErrorTypes.RUNTIME)
        message  == Field(errorInfo, "message", "Unknown error")
        severity == Field(errorInfo, "severity", "medium")
        context  == Field(errorInfo, "context", "plain")
        lim      == RateLimit(state, config, now)
        errorObj == [id        |-> generated + 1,
                     timestamp |-> toISOString(now),
                     type      |-> type,
                     message   |-> message,
                     severity  |-> severity,
                     context   |-> context]
        toConsole    == config.logToConsole
        toNotify     == NotificationWanted(config, severity)
        shows        == toNotify /\ ~NotificationExists(present)
        notifyThrows == shows /\ ~body
        toRemote     == ~notifyThrows /\ config.sendToServer
        sends        == toRemote /\ config.serverEndpoint # ""
        remoteThrows == sends /\ ~Serializable(context)
        fetches      == sends /\ ~remoteThrows
    IN  /\ calls' = calls + 1
        /\ IF ~lim.admit
           THEN /\ state' = [state EXCEPT !.errorCount = lim.errorCount,
                                          !.lastErrorTime = lim.lastErrorTime]
                /\ ret' = [op |-> "handleError", outcome |-> "undefined",
                           event |-> NoEvent]
                /\ UNCHANGED <<generated, consoleCalls, notifyCalls, remoteCalls,
                               posts, pending, present, timers>>
           ELSE /\ state' = [state EXCEPT
                                !.errorCount = lim.errorCount,
                                !.lastErrorTime = lim.lastErrorTime,
                                !.errorHistory =
                                    Record(@, errorObj, config.errorHistorySize)]
                /\ generated' = generated + 1
                /\ consoleCalls' =
                       IF toConsole THEN Append(consoleCalls, errorObj)
                       ELSE consoleCalls
                /\ notifyCalls' =
                       IF toNotify THEN Append(notifyCalls, errorObj)
                       ELSE notifyCalls
                /\ present' =
                       IF shows /\ ~notifyThrows THEN present \cup {errorObj}
                       ELSE present
                /\ timers' =
                       IF shows /\ ~notifyThrows
                       THEN timers \cup {AutoDismissTimer(errorObj, now)}
                       ELSE timers
                /\ remoteCalls' =
                       IF toRemote THEN Append(remoteCalls, errorObj)
                       ELSE remoteCalls
                /\ posts' = IF fetches THEN Append(posts, errorObj) ELSE posts
                /\ pending' = IF fetches THEN pending \cup {errorObj.id} ELSE pending
                /\ ret' = [op |-> "handleError",
                           outcome |-> IF notifyThrows \/ remoteThrows
                                       THEN "throw" ELSE "event",
                           event |-> errorObj]
        /\ arg' = errorInfo
        /\ UNCHANGED <<config, now, installed, warnings, body, modals, clicks>>
        /\ UNCHANGED <<result, writes, cacheVars, orientVars>>

\* The convenience entry points and the global handlers init installs.
handleGameplayError(context) ==
    handleError([type |-> ErrorTypes.GAMEPLAY, message |-> "m",
                 context |-> context, severity |-> "medium"])

handleNetworkError(context) ==
    handleError([type |-> ErrorTypes.NETWORK, message |-> "m",
                 context |-> context, severity |-> "high"])

handlePerformanceWarning(context) ==
    handleError([type |-> ErrorTypes.PERFORMANCE, message |-> "m",
                 context |-> context, severity |-> "low"])

\* window.onerror, as wrapped by setupGlobalHandlers.
onerror ==
    /\ installed.onerror > 0
    /\ handleError([type |-> ErrorTypes.RUNTIME, message |-> "m",
                    severity |-> "high"])

\* The 'unhandledrejection' listener init adds.
unhandledrejection ==
    /\ installed.unhandledrejection > 0
    /\ handleError([type |-> ErrorTypes.RUNTIME, message |-> "m",
                    severity |-> "medium"])

\* Statistics that set a count to 1 instead of adding to it.
getErrorStats_NoAccumulate(st, t) ==
    LET h == st.errorHistory
    IN  [total      |-> Len(h),
         byType     |-> [ty \in {h[i].type : i \in DOMAIN h} |-> 1],
         bySeverity |-> [sv \in {h[i].severity : i \in DOMAIN h} |-> 1],
         recent     |-> Cardinality({i \in DOMAIN h :
                            t - getTime(h[i].timestamp) < HourMs})]

\* getErrorStats(): the counts over the current history at time t.  byType
\* and bySeverity have a key for each value that occurs, and no other.
getErrorStats(st, t) ==
    LET h == st.errorHistory
    IN  [total      |-> Len(h),
         byType     |-> [ty \in {h[i].type : i \in DOMAIN h} |->
                            Cardinality({i \in DOMAIN h : h[i].type = ty})],
         bySeverity |-> [sv \in {h[i].severity : i \in DOMAIN h} |->
                            Cardinality({i \in DOMAIN h : h[i].severity = sv})],
         recent     |-> Cardinality({i \in DOMAIN h :
                            t - getTime(h[i].timestamp) < HourMs})]

\* clearErrorHistory(): empties the history and zeroes the counter.
clearErrorHistory ==
    /\ state' = [state EXCEPT !.errorHistory = <<>>, !.errorCount = 0]
    /\ ret' = [op |-> "clearErrorHistory", outcome |-> "undefined",
               event |-> NoEvent]
    /\ UNCHANGED <<config, now, generated, calls, installed, consoleCalls,
                   notifyCalls, remoteCalls, posts, pending, warnings, body,
                   present, modals, timers, clicks>>
    /\ UNCHANGED <<callerVars, cacheVars, orientVars>>

-----------------------------------------------------------------------------
\* The queries of the log, and what their caller can do with what it holds.
\* An event object is referred to by its id: two references are to the same
\* object when the ids are equal.

\* [...this.state.errorHistory]: a new array holding the history's own event
\* objects.
Spread(history) ==
    [i \in DOMAIN history |-> history[i].id]

\* getErrorHistory(): returns the spread of the history.
getErrorHistory ==
    /\ result' = [op |-> "getErrorHistory", value |-> Spread(state.errorHistory)]
    /\ UNCHANGED <<handlerVars, arg, writes, cacheVars, orientVars>>

\* A call of getErrorStats() at the current time.
getErrorStatsCall ==
    /\ result' = [op |-> "getErrorStats", value |-> getErrorStats(state, now)]
    /\ UNCHANGED <<handlerVars, arg, writes, cacheVars, orientVars>>

\* hasRecentErrors(minutes): some event's timestamp, read back, is after the
\* cutoff Date.now() - minutes * 60 * 1000.
hasRecentErrors(st, t, minutes) ==
    LET cutoff == t - (minutes * 60 * 1000)
    IN  \E i \in DOMAIN st.errorHistory :
            getTime(st.errorHistory[i].timestamp) > cutoff

\* A call of hasRecentErrors(minutes) at the current time.
hasRecentErrorsCall(minutes) ==
    /\ result' = [op |-> "hasRecentErrors", minutes |-> minutes,
                  value |-> hasRecentErrors(state, now, minutes)]
    /\ UNCHANGED <<handlerVars, arg, writes, cacheVars, orientVars>>

\* The object with this id after field := value; any other object as it was.
Written(object, id, field, value) ==
    IF object.id = id THEN [object EXCEPT ![field] = value] ELSE object

\* Every holder of the event object sees a write to it: the history, the
\* notification's closures, and the caller that got it from handleError.
WriteEvent(id, field, value) ==
    /\ state' = [state EXCEPT !.errorHistory =
                     [i \in DOMAIN @ |-> Written(@[i], id, field, value)]]
    /\ present' = {Written(e, id, field, value) : e \in present}
    /\ ret' = [ret EXCEPT !.event = Written(@, id, field, value)]

\* The caller changes the array getErrorHistory returned to it: it removes the
\* first entry, reverses the array, or pushes an object of its own.
CallerWritesArray ==
    /\ result.op = "getErrorHistory"
    /\ Len(writes) < MaxWrites
    /\ \E how \in {"shift", "reverse", "push"} :
           /\ how = "shift" => result.value # <<>>
           /\ result' = [result EXCEPT !.value =
                  CASE how = "shift"   -> Tail(@)
                    [] how = "reverse" -> [i \in DOMAIN @ |-> @[Len(@) + 1 - i]]
                    [] how = "push"    -> Append(@, NoEvent.id)]
           /\ writes' = Append(writes, [through |-> "array", how |-> how])
    /\ UNCHANGED <<handlerVars, arg, cacheVars, orientVars>>

\* The caller assigns a field of an event object it reached through the array
\* getErrorHistory returned: history[i].severity = value.
CallerWritesEvent(i, value) ==
    /\ result.op = "getErrorHistory"
    /\ i \in DOMAIN result.value
    /\ result.value[i] # NoEvent.id
    /\ Len(writes) < MaxWrites
    /\ WriteEvent(result.value[i], "severity", value)
    /\ writes' = Append(writes, [through |-> "event", how |-> value])
    /\ UNCHANGED <<config, now, generated, calls, installed, consoleCalls,
                   notifyCalls, remoteCalls, posts, pending, warnings, body,
                   modals, timers, clicks>>
    /\ UNCHANGED <<arg, result, cacheVars, orientVars>>

\* The caller changes the context object it passed to the last handleError
\* call, after the call: the event built from it holds that same object.
CallerWritesContext(value) ==
    /\ ret.op = "handleError"
    /\ ret.event # NoEvent
    /\ "context" \in DOMAIN arg
    /\ Len(writes) < MaxWrites
    /\ arg' = [arg EXCEPT !.context = value]
    /\ WriteEvent(ret.event.id, "context", value)
    /\ writes' = Append(writes, [through |-> "context", how |-> value])
    /\ UNCHANGED <<config, now, generated, calls, installed, consoleCalls,
                   notifyCalls, remoteCalls, posts, pending, warnings, body,
                   modals, timers, clicks>>
    /\ UNCHANGED <<result, cacheVars, orientVars>>

-----------------------------------------------------------------------------
\* The remote sink's request settling.

\* The POST's promise resolves: nothing in the handler reads the response.
FetchResolves(id) ==
    /\ id \in pending
    /\ pending' = pending \ {id}
    /\ UNCHANGED <<config, state, now, generated, calls, ret, installed,
                   consoleCalls, notifyCalls, remoteCalls, posts, warnings,
                   body, present, modals, timers, clicks>>
    /\ UNCHANGED <<callerVars, cacheVars, orientVars>>

\* The POST's promise rejects: sendToServer's catch warns on the console.
FetchRejects(id) ==
    /\ id \in pending
    /\ pending' = pending \ {id}
    /\ warnings' = warnings + 1
    /\ UNCHANGED <<config, state, now, generated, calls, ret, installed,
                   consoleCalls, notifyCalls, remoteCalls, posts, body,
                   present, modals, timers, clicks>>
    /\ UNCHANGED <<callerVars, cacheVars, orientVars>>

-----------------------------------------------------------------------------
\* The notification element: clicks and timers.

\* A click on Dismiss: the fade-out starts and a timer removes the element.
ClickDismiss(el) ==
    /\ el \in present
    /\ clicks < MaxClicks
    /\ clicks' = clicks + 1
    /\ timers' = timers \cup {RemoveTimer(el.id, now)}
    /\ UNCHANGED <<config, state, now, generated, calls, ret, installed,
                   consoleCalls, notifyCalls, remoteCalls, posts, pending,
                   warnings, body, present, modals>>
    /\ UNCHANGED <<callerVars, cacheVars, orientVars>>

\* A click on Details: showErrorDetails, then the element is removed.
\* showErrorDetails throws at JSON.stringify(errorObj.context) on a context it
\* cannot serialise, before the modal is attached; the removal is then skipped.
ClickDetails(el) ==
    /\ el \in present
    /\ clicks < MaxClicks
    /\ clicks' = clicks + 1
    /\ IF Serializable(el.context)
       THEN /\ modals' = modals \cup {el.id}
            /\ present' = present \ {el}
       ELSE UNCHANGED <<modals, present>>
    /\ UNCHANGED <<config, state, now, generated, calls, ret, installed,
                   consoleCalls, notifyCalls, remoteCalls, posts, pending,
                   warnings, body, timers>>
    /\ UNCHANGED <<callerVars, cacheVars, orientVars>>

\* A callback that takes whatever element carries the notification's DOM id,
\* instead of the element its closure holds.
Attached_ByDomId(id, dom) ==
    dom

\* The element a callback's closure holds, if it is still attached
\* (notification.parentNode).
Attached(id, dom) ==
    {e \in dom : e.id = id}

\* A setTimeout callback runs at its deadline.
\*   auto:   if the element is still attached, start the fade-out and set the
\*           timer that removes it;
\*   remove: notification.remove(), a no-op on a detached element.
FireTimer(t) ==
    /\ t \in timers
    /\ t.at = now
    /\ IF t.kind = "auto"
       THEN /\ timers' = (timers \ {t}) \cup
                           {RemoveTimer(e.id, now) : e \in Attached(t.el, present)}
            /\ UNCHANGED present
       ELSE /\ timers' = timers \ {t}
            /\ present' = present \ Attached(t.el, present)
    /\ UNCHANGED <<config, state, now, generated, calls, ret, installed,
                   consoleCalls, notifyCalls, remoteCalls, posts, pending,
                   warnings, body, modals, clicks>>
    /\ UNCHANGED <<callerVars, cacheVars, orientVars>>

-----------------------------------------------------------------------------
\* PerformanceOptimizer.memoryManager: the resource cache, a Map.  A Map keeps
\* its entries in insertion order; set() on a key it has replaces the value and
\* leaves the entry where it is.

\* cacheResource's maxSize when the caller passes none.
DefaultMaxSize == 100

\* A resource object (an image, say), referred to by its serial number.
Resource(n) == [ref |-> n]

\* cache.keys(), as a set.
Keys(c) == {c[i].key : i \in DOMAIN c}

\* cache.keys().next().value: the key inserted first, undefined on an empty Map.
FirstKey(c) ==
    IF c = <<>> THEN undefined ELSE [key |-> c[1].key]

\* cache.delete(k).
MapDelete(c, k) ==
    SelectSeq(c, LAMBDA e : [key |-> e.key] # k)

\* cache.set(key, resource).
MapSet(c, key, resource) ==
    IF key \in Keys(c)
    THEN [i \in DOMAIN c |->
             IF c[i].key = key THEN [key |-> key, resource |-> resource]
             ELSE c[i]]
    ELSE Append(c, [key |-> key, resource |-> resource])

\* cache.get(key): undefined when the key is not there.
MapGet(c, key) ==
    IF key \in Keys(c)
    THEN (CHOOSE e \in {c[i] : i \in DOMAIN c} : e.key = key).resource
    ELSE undefined

\* The Map after cacheResource(key, resource, maxSize): when the size has
\* reached maxSize the first key is deleted, then the key is set.
Stored(c, key, resource, maxSize) ==
    MapSet(IF Len(c) >= maxSize THEN MapDelete(c, FirstKey(c)) ELSE c,
           key, resource)

\* cacheResource(key, resource, maxSize): returns the resource.
cacheResource(key, resource, maxSize) ==
    /\ cache' = Stored(cache, key, resource, maxSize)
    /\ cacheRet' = [op |-> "cacheResource", key |-> key, resource |-> resource,
                    maxSize |-> maxSize, value |-> resource]
    /\ UNCHANGED <<handlerVars, callerVars, orientVars, preloads>>

\* getResource(key).
getResource(key) ==
    /\ cacheRet' = [op |-> "getResource", key |-> key,
                    value |-> MapGet(cache, key)]
    /\ UNCHANGED <<handlerVars, callerVars, orientVars, cache, preloads, created>>

\* clearCache(): empties the Map (and asks for a collection where there is one).
clearCache ==
    /\ cache' = <<>>
    /\ cacheRet' = [op |-> "clearCache", value |-> undefined]
    /\ UNCHANGED <<handlerVars, callerVars, orientVars, preloads, created>>

\* A caller stores a resource object of its own making under a key.
StoreNew(key, maxSize) ==
    /\ created' = created + 1
    /\ cacheResource(key, Resource(created + 1), maxSize)

-----------------------------------------------------------------------------
\* PerformanceOptimizer.preloadImages(urls).  A call creates one Image per url
\* and awaits Promise.all over their promises; the continuation of the await
\* runs as a microtask right after the event that settles Promise.all, before
\* any other event, so it is part of that event's action.

\* A Promise.all that waits for every promise and fulfils whatever happened to
\* them.
PromiseAll_IgnoresFailures(status) ==
    IF \A i \in DOMAIN status : status[i] # "loading" THEN "fulfilled"
    ELSE "pending"

\* Promise.all(promises): rejected once one of them is, fulfilled once all are.
PromiseAll(status) ==
    IF \E i \in DOMAIN status : status[i] = "failed" THEN "rejected"
    ELSE IF \A i \in DOMAIN status : status[i] = "loaded" THEN "fulfilled"
    ELSE "pending"

\* images.forEach((img, index) => cacheResource(urls[index], img)): each image
\* is stored under its url, in order, with the default maxSize.
RECURSIVE StoredAll(_, _, _)
StoredAll(c, urls, images) ==
    IF urls = <<>> THEN c
    ELSE StoredAll(Stored(c, Head(urls), Head(images), DefaultMaxSize),
                   Tail(urls), Tail(images))

\* The call after the await: on fulfilment the images are cached and returned;
\* on rejection the catch warns and returns an empty list; else it waits on.
Resumed(call, c) ==
    IF call.done \/ PromiseAll(call.status) = "pending"
    THEN [call |-> call, cache |-> c]
    ELSE IF PromiseAll(call.status) = "fulfilled"
    THEN [call  |-> [call EXCEPT !.done = TRUE, !.value = call.images],
          cache |-> StoredAll(c, call.urls, call.images)]
    ELSE [call  |-> [call EXCEPT !.done = TRUE, !.value = <<>>,
                                 !.warned = TRUE],
          cache |-> c]

\* What the last cacheResource call of the continuation leaves in cacheRet.
LastStore(call, before) ==
    IF call.done /\ ~call.warned /\ call.urls # <<>>
    THEN LET n == Len(call.urls)
         IN  [op |-> "cacheResource", key |-> call.urls[n],
              resource |-> call.images[n], maxSize |-> DefaultMaxSize,
              value |-> call.images[n]]
    ELSE before

\* preloadImages(urls): the synchronous part creates the images and starts
\* their loads; with no url at all Promise.all is fulfilled at once.
preloadImages(urls) ==
    LET n    == Len(urls)
        call == [urls   |-> urls,
                 images |-> [i \in 1..n |-> Resource(created + i)],
                 status |-> [i \in 1..n |-> "loading"],
                 done   |-> FALSE,
                 value  |-> <<>>,
                 warned |-> FALSE]
        next == Resumed(call, cache)
    IN  /\ created' = created + n
        /\ preloads' = Append(preloads, next.call)
        /\ cache' = next.cache
        /\ cacheRet' = LastStore(next.call, cacheRet)
        /\ UNCHANGED <<handlerVars, callerVars, orientVars>>

\* An image's load settles: img.onload resolves its promise, img.onerror
\* rejects it; then the call's continuation runs if Promise.all has settled.
ImageSettles(c, i, how) ==
    /\ c \in DOMAIN preloads
    /\ i \in DOMAIN preloads[c].status
    /\ preloads[c].status[i] = "loading"
    /\ LET call == [preloads[c] EXCEPT !.status[i] = how]
           next == IF preloads[c].done THEN [call |-> call, cache |-> cache]
                   ELSE Resumed(call, cache)
       IN  /\ preloads' = [preloads EXCEPT ![c] = next.call]
           /\ cache' = next.cache
           /\ cacheRet' = IF preloads[c].done THEN cacheRet
                          ELSE LastStore(next.call, cacheRet)
    /\ UNCHANGED <<handlerVars, callerVars, orientVars, created>>

ImageLoads(c, i) == ImageSettles(c, i, "loaded")

ImageFails(c, i) == ImageSettles(c, i, "failed")

-----------------------------------------------------------------------------
\* MobileUtils.onOrientationChange and offOrientationChange.  A handler is
\* referred to by its serial number, and so is the callback it was made for.

\* The delay of the handler's setTimeout.
OrientationDelayMs == 100

EventTypes == {"orientationchange", "resize"}

\* The listeners a handler is added as, and removed as.
ListenersOf(handler) ==
    {[type |-> ty, handler |-> handler] : ty \in EventTypes}

\* onOrientationChange(callback): makes the handler, adds it for both event
\* types and returns it.
onOrientationChange ==
    /\ handlers < MaxHandlers
    /\ handlers' = handlers + 1
    /\ listeners' = listeners \cup ListenersOf(handlers + 1)
    /\ UNCHANGED <<handlerVars, callerVars, cacheVars, events, invoked, removed>>

\* offOrientationChange(handler): removes the handler for both event types.
offOrientationChange(handler) ==
    /\ listeners' = listeners \ ListenersOf(handler)
    /\ removed' = removed \cup {handler}
    /\ UNCHANGED <<handlerVars, callerVars, cacheVars, handlers, events, invoked>>

\* window gets an event of this type: every handler listening for it runs,
\* which sets a timer for its callback.
Dispatch(type) ==
    /\ events < MaxEvents
    /\ events' = events + 1
    /\ timers' = timers \cup
           {[kind |-> "callback", el |-> l.handler,
             at |-> now + OrientationDelayMs, n |-> events + 1] :
                l \in {x \in listeners : x.type = type}}
    /\ UNCHANGED <<config, state, now, generated, calls, ret, installed,
                   consoleCalls, notifyCalls, remoteCalls, posts, pending,
                   warnings, body, present, modals, clicks>>
    /\ UNCHANGED <<callerVars, cacheVars, listeners, handlers, invoked, removed>>

\* A handler's timer is due: the callback is invoked.
RunCallback(t) ==
    /\ t \in timers
    /\ t.kind = "callback"
    /\ t.at = now
    /\ timers' = timers \ {t}
    /\ invoked' = Append(invoked, [callback |-> t.el, at |-> now])
    /\ UNCHANGED <<config, state, now, generated, calls, ret, installed,
                   consoleCalls, notifyCalls, remoteCalls, posts, pending,
                   warnings, body, present, modals, clicks>>
    /\ UNCHANGED <<callerVars, cacheVars, listeners, handlers, events, removed>>

-----------------------------------------------------------------------------
\* The environment.

\* The page sits idle for a while: no timer is pending, the clock advances.
Idle(d) ==
    /\ d > 0
    /\ timers = {}
    /\ now' = now + d
    /\ UNCHANGED <<config, state, generated, calls, ret, installed,
                   consoleCalls, notifyCalls, remoteCalls, posts, pending,
                   warnings, body, present, modals, timers, clicks>>
    /\ UNCHANGED <<callerVars, cacheVars, orientVars>>

\* The parser reaches <body>: document.body exists from then on.
DOMReady ==
    /\ ~body
    /\ body' = TRUE
    /\ UNCHANGED <<config, state, now, generated, calls, ret, installed,
                   consoleCalls, notifyCalls, remoteCalls, posts, pending,
                   warnings, present, modals, timers, clicks>>
    /\ UNCHANGED <<callerVars, cacheVars, orientVars>>

\* The clock advances, by a step or up to the next timer deadline, never past
\* a deadline: a timer's callback runs when it is due.
Advance(d) ==
    /\ d > 0
    /\ now + d <= PageLoadTime + MaxElapsed
    /\ \A t \in timers : now + d <= t.at
    /\ now' = now + d
    /\ UNCHANGED <<config, state, generated, calls, ret, installed,
                   consoleCalls, notifyCalls, remoteCalls, posts, pending,
                   warnings, body, present, modals, timers, clicks>>
    /\ UNCHANGED <<callerVars, cacheVars, orientVars>>

\* An error is reported, through an entry point or a global handler.
Report ==
    /\ state.isInitialized
    /\ calls < MaxCalls
    /\ \/ \E c \in Contexts : handleGameplayError(c)
       \/ handleNetworkError("plain")
       \/ handlePerformanceWarning("plain")
       \/ onerror
       \/ unhandledrejection

\* An error is reported through one of two entry points: one of high severity,
\* one of low.
ReportHighOrLow ==
    /\ state.isInitialized
    /\ calls < MaxCalls
    /\ \/ \E c \in Contexts : handleNetworkError(c)
       \/ handlePerformanceWarning("plain")

\* The life of the page from load: the first init, later calls of init, the
\* document's body, reports through every entry point, the remote sink's
\* requests settling, and the clock.
Next ==
    \/ \E o \in SinkOptions : ~state.isInitialized /\ init(o)
    \/ state.isInitialized /\ init(NoOptions)
    \/ Report
    \/ DOMReady
    \/ \E id \in pending : FetchResolves(id)
    \/ \E id \in pending : FetchRejects(id)
    \/ \E t \in timers : FireTimer(t)
    \/ \E d \in {t.at - now : t \in timers} :
           now + d <= PageLoadTime + MaxWatched /\ Advance(d)

Spec == Init /\ [][Next]_vars

\* The rate limiter and the history under every rate and size, on a page that
\* is initialised and parsed: reports, clearErrorHistory, and the clock.
InitLimiter ==
    \E o \in LimiterOptions : Initialized(o)

NextLimiter ==
    \/ ReportHighOrLow
    \/ clearErrorHistory
    \/ \E t \in timers : FireTimer(t)
    \/ \E d \in {TimeStep} \cup {t.at - now : t \in timers} : Advance(d)

SpecLimiter == InitLimiter /\ [][NextLimiter]_vars

\* The notification on an initialised, parsed page with the default rate and
\* size: reports of high and low severity, the user's clicks on the
\* notification, the timers, and the clock advancing by half the auto-dismiss
\* delay or to the next deadline.  Every sink is on; a details modal, once
\* opened, is left open.
NotifyOptions ==
    [sendToServer : {TRUE}]

InitNotify ==
    \E o \in NotifyOptions : Initialized(o)

NextNotify ==
    \/ ReportHighOrLow
    \/ \E el \in present : ClickDismiss(el)
    \/ \E el \in present : ClickDetails(el)
    \/ \E t \in timers : FireTimer(t)
    \/ \E d \in {AutoDismissMs \div 2} \cup {t.at - now : t \in timers} :
           now + d <= PageLoadTime + MaxWatched /\ Advance(d)

SpecNotify == InitNotify /\ [][NextNotify]_vars

\* A burst of network errors, all within one second, reported to a fresh log
\* whose history has room for all of them.
InitBurst ==
    Initialized([maxErrorsPerMinute |-> BurstRate,
                 errorHistorySize   |-> 2 * BurstRate])

NextBurst ==
    \/ calls < MaxBurstCalls /\ handleNetworkError("plain")
    \/ now + BurstGapMs < PageLoadTime + 1000 /\ Advance(BurstGapMs)

SpecBurst == InitBurst /\ [][NextBurst]_vars

\* The log and a caller that keeps what it is given: reports that pass a
\* context object (and a rejected promise, which passes none), getErrorHistory,
\* and the caller's writes to the returned array, to the events in it and to
\* the context object it passed last.  The defaults are in force: no remote
\* sink, and no report here is of high severity.
Severities == {"low", "medium", "high"}

ReportWithContext ==
    /\ state.isInitialized
    /\ calls < MaxCalls
    /\ \/ \E c \in Contexts : handleGameplayError(c)
       \/ handlePerformanceWarning("plain")
       \/ unhandledrejection

InitCaller ==
    Initialized(NoOptions)

NextCaller ==
    \/ ReportWithContext
    \/ getErrorHistory
    \/ CallerWritesArray
    \/ \E i \in 1..MaxCalls, v \in Severities : CallerWritesEvent(i, v)
    \/ \E c \in Contexts : CallerWritesContext(c)

SpecCaller == InitCaller /\ [][NextCaller]_vars

\* The queries over hours: reports of several types and severities (none
\* high, so no notification), clearErrorHistory, getErrorStats and
\* hasRecentErrors with a window of no minutes or of half an hour, and the
\* clock advancing by half an hour at a time.
IdleStep == HourMs \div 2

Windows == {0, IdleStep \div MinuteMs}

InitQueries ==
    Initialized(NoOptions)

NextQueries ==
    \/ ReportWithContext
    \/ clearErrorHistory
    \/ getErrorStatsCall
    \/ \E m \in Windows : hasRecentErrorsCall(m)
    \/ now + IdleStep <= PageLoadTime + MaxIdleSteps * IdleStep /\ Idle(IdleStep)

SpecQueries == InitQueries /\ [][NextQueries]_vars

\* The configuration over the life of the page, from the scripts as loaded:
\* init called with or without options at any time, before and after the
\* first call, and every operation of the pipeline: reports, clearErrorHistory,
\* getErrorHistory, getErrorStats, hasRecentErrors.
RateOptions ==
    [maxErrorsPerMinute : {1, MaxRate}]

NextConfig ==
    \/ \E o \in RateOptions : init(o)
    \/ init(NoOptions)
    \/ ReportHighOrLow
    \/ clearErrorHistory
    \/ getErrorHistory
    \/ getErrorStatsCall
    \/ \E m \in Windows : hasRecentErrorsCall(m)
    \/ DOMReady

SpecConfig == Init /\ [][NextConfig]_vars

\* The cache and its callers: resources stored under a few keys with maxSize
\* from 1 up, lookups, and clearCache.
CacheKeys == 1..MaxKeys

NextCache ==
    \/ \E k \in CacheKeys, m \in 1..MaxCacheSize :
           created < MaxStores /\ StoreNew(k, m)
    \/ \E k \in CacheKeys : getResource(k)
    \/ clearCache

SpecCache == Init /\ [][NextCache]_vars

\* One call of preloadImages, followed from its start to its return and on
\* until every image has settled, for every list of up to MaxUrls urls
\* (repeated urls included) and every order of loads and failures.  The cache
\* the call finds is empty, or has been filled by earlier calls of
\* cacheResource with so many resources that the call's images just fit, or
\* with one fewer than it can hold; the first of them was stored under the
\* first url, the others under keys of their own.
UrlLists ==
    UNION {[1..n -> CacheKeys] : n \in 0..MaxUrls}

Prefills ==
    {0, DefaultMaxSize - MaxUrls, DefaultMaxSize - 1}

Filled(n) ==
    [i \in 1..n |-> [key      |-> IF i = 1 THEN 1 ELSE MaxKeys + i,
                     resource |-> Resource(i)]]

InitPreload ==
    /\ Loaded
    /\ NoListeners
    /\ preloads = <<>>
    /\ \E n \in Prefills :
           /\ cache = Filled(n)
           /\ created = n
           /\ cacheRet = IF n = 0 THEN [op |-> "none"]
                         ELSE [op |-> "cacheResource", key |-> Filled(n)[n].key,
                               resource |-> Resource(n),
                               maxSize |-> DefaultMaxSize, value |-> Resource(n)]

NextPreload ==
    \/ \E urls \in UrlLists : preloads = <<>> /\ preloadImages(urls)
    \/ \E c \in DOMAIN preloads, i \in 1..MaxUrls : ImageLoads(c, i)
    \/ \E c \in DOMAIN preloads, i \in 1..MaxUrls : ImageFails(c, i)

SpecPreload == InitPreload /\ [][NextPreload]_vars

\* The orientation listeners: callbacks registered and removed, events of both
\* types, the handlers' timers, and the clock advancing by half the handler's
\* delay or to the next deadline.
NextOrientation ==
    \/ onOrientationChange
    \/ \E h \in 1..handlers : h \notin removed /\ offOrientationChange(h)
    \/ \E ty \in EventTypes : Dispatch(ty)
    \/ \E t \in timers : RunCallback(t)
    \/ \E d \in {OrientationDelayMs \div 2} \cup {t.at - now : t \in timers} :
           now + d <= PageLoadTime + MaxEvents * OrientationDelayMs /\ Advance(d)

SpecOrientation == Init /\ [][NextOrientation]_vars

\* Raw signals passed to handleError directly: none at all, an empty object,
\* and objects that leave out the type, the severity, the context, or all of
\* them.
Signals ==
    {undefined,
     [message |-> "m"],
     [type |-> ErrorTypes.NETWORK],
     [severity |-> "high"],
     [type |-> ErrorTypes.INPUT, severity |-> "low", context |-> "plain",
      message |-> "m"]}

EmptySignal == <<>>

\* The classification of raw signals, with the defaults in force: calls of
\* handleError with each signal, the notification's timers, and the clock.
InitClassify ==
    Initialized(NoOptions)

NextClassify ==
    \/ \E s \in Signals : calls < MaxCalls /\ handleError(s)
    \/ calls < MaxCalls /\ handleError(EmptySignal)
    \/ \E t \in timers : FireTimer(t)
    \/ \E d \in {TimeStep} \cup {t.at - now : t \in timers} : Advance(d)

SpecClassify == InitClassify /\ [][NextClassify]_vars

-----------------------------------------------------------------------------
\* Properties.

Min(a, b) == IF a < b THEN a ELSE b

\* Whether the last entry of a sink's log is this event.
InvokedLast(log, e) ==
    log # <<>> /\ log[Len(log)] = e

\* The step is a handleError call that records an event.
Admits == generated' = generated + 1

\* The history is within its size, and its entries are the most recently
\* admitted events, newest first: their ids count down from the last id.
HistoryNewestFirst ==
    /\ Len(state.errorHistory) <= config.errorHistorySize
    /\ \A i \in 1..Len(state.errorHistory) :
           state.errorHistory[i].id = generated - (i - 1)

\* An admission puts the new event at the front, keeps the others in order, and
\* when the history was full, drops its last (oldest) entry and nothing else.
HistoryStep ==
    Admits =>
        LET old == state.errorHistory
            new == state'.errorHistory
        IN  /\ Len(new) = Min(Len(old) + 1, config.errorHistorySize)
            /\ new[1] = ret'.event
            /\ new[1].id = generated'
            /\ \A i \in 2..Len(new) : new[i] = old[i - 1]

\* C1: after any sequence of handleError calls with errorHistorySize = H >= 1 the
\* history has at most H entries and holds exactly the min(n, H) most recently
\* admitted events, newest at the front in reverse admission order; when an
\* admission would exceed H, the entry removed is the oldest.
C1_HistoryBounded ==
    []HistoryNewestFirst /\ [][HistoryStep]_vars

\* C1's case: a full history of two or more entries from which the first
\* admitted event has been evicted.
C1_Witness ==
    /\ config.errorHistorySize >= 2
    /\ Len(state.errorHistory) = config.errorHistorySize
    /\ state.errorHistory[Len(state.errorHistory)].id > 1

\* C2: no 60-second window records more than maxErrorsPerMinute events: of the
\* recorded events, at most maxErrorsPerMinute fall in the 60 seconds that start
\* at any one of them.
C2_AtMostRatePerMinute ==
    LET h == state.errorHistory
        At(i) == getTime(h[i].timestamp)
    IN  \A i \in DOMAIN h :
            Cardinality({j \in DOMAIN h :
                            At(i) <= At(j) /\ At(j) < At(i) + MinuteMs})
                <= config.maxErrorsPerMinute

\* C3: from a fresh log with maxErrorsPerMinute = M and errorHistorySize >= M,
\* once more than M network-kind, high-severity events have been reported, all
\* within one second, the history has M entries and getErrorStats counts M
\* under byType.network and M under bySeverity.high.
C3_BurstRecordsRate ==
    calls > config.maxErrorsPerMinute =>
        LET stats == getErrorStats(state, now)
        IN  /\ Len(state.errorHistory) = config.maxErrorsPerMinute
            /\ "network" \in DOMAIN stats.byType
            /\ stats.byType["network"] = config.maxErrorsPerMinute
            /\ "high" \in DOMAIN stats.bySeverity
            /\ stats.bySeverity["high"] = config.maxErrorsPerMinute

\* The step is a handleError call that the rate limiter rejects: its counter,
\* once incremented, exceeds maxErrorsPerMinute.
Rejects ==
    /\ calls' = calls + 1
    /\ state'.errorCount > config.maxErrorsPerMinute

\* C4: a handleError call the rate limiter rejects changes nothing but the
\* limiter's counter: the history is unchanged, no sink is invoked (console,
\* notification, remote), no request is made, nothing is thrown and no event is
\* returned.
C4_RejectedCallIsInert ==
    [][Rejects =>
          /\ state'.errorHistory = state.errorHistory
          /\ state'.lastErrorTime = state.lastErrorTime
          /\ ret'.outcome = "undefined" /\ ret'.event = NoEvent
          /\ UNCHANGED <<config, generated, consoleCalls, notifyCalls,
                         remoteCalls, posts, pending, warnings, present,
                         modals, timers>>]_vars

\* C4's case: the last call was rejected while every sink is enabled.
C4_Witness ==
    /\ ret.op = "handleError"
    /\ ret.outcome = "undefined"
    /\ state.errorCount > config.maxErrorsPerMinute
    /\ config.logToConsole /\ config.showUserNotifications /\ config.sendToServer
    /\ state.errorHistory # <<>>

\* The admit/drop decisions of handleError calls at the given times, starting
\* from the limiter state st.
RECURSIVE Decisions(_, _, _)
Decisions(st, cfg, times) ==
    IF times = <<>> THEN <<>>
    ELSE LET lim == RateLimit(st, cfg, Head(times))
         IN  <<lim.admit>> \o
             Decisions([st EXCEPT !.errorCount = lim.errorCount,
                                  !.lastErrorTime = lim.lastErrorTime],
                       cfg, Tail(times))

\* Sequences of up to three later call times: each call follows the one before
\* at once or a quarter of a minute later.
FutureGaps == {0, MinuteMs \div 4}

FutureTimes ==
    {<<>>} \cup
    {<<now + a>> : a \in FutureGaps} \cup
    {<<now + a, now + a + b>> : a \in FutureGaps, b \in FutureGaps} \cup
    {<<now + a, now + a + b, now + a + b + c>> :
        a \in FutureGaps, b \in FutureGaps, c \in FutureGaps}

\* C10: after clearErrorHistory the log is equivalent to a fresh one: the
\* history is empty and every later sequence of timed calls gets the decisions
\* a freshly initialised log would give.
C10_ClearIsFresh ==
    ret.op = "clearErrorHistory" =>
        /\ state.errorHistory = <<>>
        /\ \A times \in FutureTimes :
               Decisions(state, config, times) =
                   Decisions(InitialState, config, times)

\* The last call was a handleError call that built an event (it was admitted).
LastAdmitted ==
    ret.op = "handleError" /\ ret.event # NoEvent

\* C5: for an admitted event, whatever a sink does (throw or fail), the event is
\* recorded, every enabled sink is invoked for it, and nothing is thrown to the
\* caller of handleError.
C5_SinksIsolated ==
    LastAdmitted =>
        /\ ret.outcome # "throw"
        /\ state.errorHistory # <<>> /\ state.errorHistory[1] = ret.event
        /\ config.logToConsole => InvokedLast(consoleCalls, ret.event)
        /\ (config.showUserNotifications /\ ret.event.severity = "high")
               => InvokedLast(notifyCalls, ret.event)
        /\ config.sendToServer => InvokedLast(remoteCalls, ret.event)

\* C6: showUserNotification is invoked only for events of severity 'high', and
\* only with showUserNotifications on; an admitted event of severity 'low' or
\* 'medium' is still recorded, still passed to logToConsole when logToConsole
\* is on and still passed to sendToServer when sendToServer is on.
C6_NotificationOnlyForHigh ==
    /\ \A i \in DOMAIN notifyCalls :
           notifyCalls[i].severity = "high" /\ config.showUserNotifications
    /\ (LastAdmitted /\ ret.event.severity \in {"low", "medium"}) =>
           /\ state.errorHistory # <<>> /\ state.errorHistory[1] = ret.event
           /\ config.logToConsole => InvokedLast(consoleCalls, ret.event)
           /\ config.sendToServer => InvokedLast(remoteCalls, ret.event)

\* C6's case: with every sink on, a 'high' event has reached
\* showUserNotification and then a 'medium' event was admitted, which reached
\* logToConsole and sendToServer and not showUserNotification.
C6_Witness ==
    /\ config.logToConsole /\ config.showUserNotifications /\ config.sendToServer
    /\ config.serverEndpoint # ""
    /\ LastAdmitted /\ ret.event.severity = "medium"
    /\ Len(notifyCalls) = 1 /\ notifyCalls[1].id < ret.event.id
    /\ Len(consoleCalls) = 2 /\ Len(remoteCalls) = 2

\* C9: with sendToServer on (and an endpoint to send to), every admitted event
\* has caused exactly one POST and no dropped event has caused any: the POSTs
\* made are those of the events admitted, one each, in order.
C9_OnePostPerAdmitted ==
    (config.sendToServer /\ config.serverEndpoint # "") =>
        /\ Len(posts) = generated
        /\ \A i \in DOMAIN posts : posts[i].id = i

\* When the element of this event was displayed.
ShownAt(e) == getTime(e.timestamp)

\* An admission of a high-severity event while an element is displayed leaves
\* the element and the timers as they are, and still records the event and
\* passes it to the other enabled sinks.
SecondHighStep ==
    (Admits /\ ret'.event.severity = "high" /\ present # {}) =>
        /\ present' = present
        /\ timers' = timers
        /\ state'.errorHistory[1] = ret'.event
        /\ config.logToConsole => InvokedLast(consoleCalls', ret'.event)
        /\ config.sendToServer => InvokedLast(remoteCalls', ret'.event)

\* C7: at most one notification element is present at any time; a high-severity
\* event admitted while one is displayed (its fade-out included) creates no
\* second element and does not replace the first, and is still recorded and
\* sent to the other enabled sinks.
C7_OneNotification ==
    [](Cardinality(present) <= 1) /\ [][SecondHighStep]_vars

\* C7's case: a high-severity event was admitted during the fade-out of
\* another event's notification, which is still the one displayed.
C7_Witness ==
    /\ LastAdmitted /\ ret.event.severity = "high"
    /\ \E e \in present, t \in timers :
           /\ e.id < ret.event.id
           /\ t.kind = "remove" /\ t.el = e.id
           /\ ShownAt(ret.event) > t.at - FadeMs
    /\ config.sendToServer /\ InvokedLast(remoteCalls, ret.event)

\* A displayed element is at most 10 s + 300 ms old, and a timer is pending
\* that removes it, or starts its removal, by then.
DisplayedIsTimed ==
    \A e \in present :
        /\ now <= ShownAt(e) + AutoDismissMs + FadeMs
        /\ \E t \in timers :
               t.el = e.id /\ t.at <= ShownAt(e) + AutoDismissMs + FadeMs

\* Without a click, an element leaves the document only when a removal timer
\* set for it is due, and a removal timer is set for it only for the instant
\* 10 s + 300 ms after its display.
RemovalStep ==
    \A e \in present :
        clicks' = clicks =>
            /\ e \notin present' =>
                   \E t \in timers \ timers' :
                       t.kind = "remove" /\ t.el = e.id /\ t.at = now
            /\ \A t \in timers' \ timers :
                   (t.kind = "remove" /\ t.el = e.id) =>
                       t.at = ShownAt(e) + AutoDismissMs + FadeMs

\* C8: every displayed notification is removed: 10 s after its display (plus
\* the 300 ms fade) when the user does not dismiss it; and the auto-dismiss
\* timer of a notification dismissed early has no effect, on a later
\* notification in particular.
C8_AutoDismiss ==
    []DisplayedIsTimed /\ [][RemovalStep]_vars

\* C8's case: the first notification was dismissed early, a later one is
\* displayed, and the first one's auto-dismiss timer has just run, 10 s after
\* its display, leaving the later one displayed.
C8_Witness ==
    /\ notifyCalls # <<>>
    /\ now = ShownAt(notifyCalls[1]) + AutoDismissMs
    /\ \A t \in timers : t.el # notifyCalls[1].id
    /\ \E e \in present :
           /\ e.id > notifyCalls[1].id
           /\ ShownAt(e) < now
           /\ \A t \in timers : t.el = e.id => t.kind = "auto"

\* The step is a write by the caller through the value getErrorHistory
\* returned: to the array, or to an event object in it.
WritesThroughReturned ==
    /\ Len(writes') > Len(writes)
    /\ writes'[Len(writes')].through \in {"array", "event"}

\* C11: getErrorHistory returns a defensive copy: no write the caller makes
\* through the returned value (adding, removing or reordering entries of the
\* array, or assigning a field of a returned event) changes what
\* getErrorHistory or getErrorStats reports afterwards.
C11_DefensiveCopy ==
    [][WritesThroughReturned =>
          /\ state'.errorHistory = state.errorHistory
          /\ getErrorStats(state', now') = getErrorStats(state, now)]_vars

\* The step is a write by the caller to the context object it passed to
\* handleError.
WritesPassedContext ==
    /\ Len(writes') > Len(writes)
    /\ writes'[Len(writes')].through = "context"

\* C12: a recorded event is never changed afterwards: its context is the
\* event's own copy, so a caller's write to the context object it passed leaves
\* every recorded event, the context of each included, as it was.
C12_ContextOwnedByEvent ==
    [][WritesPassedContext => state'.errorHistory = state.errorHistory]_vars

\* The last handleError call was not turned away by the rate limiter.
LastWithinRate ==
    ret.op = "handleError" /\ ~(state.errorCount > config.maxErrorsPerMinute)

\* C13: classification never throws and rejects no input: for every raw signal
\* (one without type, severity, message or context, an empty one, none at all)
\* handleError builds an event that has the signal's type, severity, message and
\* context where the signal gives them, and 'runtime', 'medium', 'Unknown
\* error' and an empty context where it does not.
C13_ClassificationTotal ==
    LastWithinRate =>
        /\ ret.outcome = "event"
        /\ ret.event # NoEvent
        /\ \A k \in {"type", "severity", "message", "context"} :
               k \in DOMAIN arg => ret.event[k] = arg[k]
        /\ "type" \notin DOMAIN arg => ret.event.type = "runtime"
        /\ "severity" \notin DOMAIN arg => ret.event.severity = "medium"
        /\ "message" \notin DOMAIN arg => ret.event.message = "Unknown error"
        /\ "context" \notin DOMAIN arg => ret.event.context = "plain"

\* How many entries of the history have this value in this field.
RECURSIVE Tally(_, _, _)
Tally(h, field, v) ==
    IF h = <<>> THEN 0
    ELSE (IF Head(h)[field] = v THEN 1 ELSE 0) + Tally(Tail(h), field, v)

\* The sum of the counts of a mapping.
RECURSIVE Total(_)
Total(counts) ==
    IF DOMAIN counts = {} THEN 0
    ELSE LET k == CHOOSE x \in DOMAIN counts : TRUE
         IN  counts[k] + Total([x \in DOMAIN counts \ {k} |-> counts[x]])

\* The step is a call of getErrorStats that returns something new to its
\* caller.
StatsStep ==
    result' # result /\ result'.op = "getErrorStats"

\* What getErrorStats returns is right for the history it was called on: the
\* total is its length, each type and each severity that occurs is counted
\* exactly and no other has a key, the counts sum to the total, and recent is
\* the number of events less than an hour old.
StatsExact ==
    LET h     == state.errorHistory
        stats == result'.value
    IN  /\ stats.total = Len(h)
        /\ DOMAIN stats.byType = {h[i].type : i \in DOMAIN h}
        /\ \A ty \in DOMAIN stats.byType :
               stats.byType[ty] = Tally(h, "type", ty)
        /\ Total(stats.byType) = stats.total
        /\ DOMAIN stats.bySeverity = {h[i].severity : i \in DOMAIN h}
        /\ \A sv \in DOMAIN stats.bySeverity :
               stats.bySeverity[sv] = Tally(h, "severity", sv)
        /\ Total(stats.bySeverity) = stats.total
        /\ stats.recent <= stats.total
        /\ stats.recent =
               Cardinality({i \in DOMAIN h :
                               getTime(h[i].timestamp) + HourMs > now})

\* C14: getErrorStats is a pure function of the current history: the call
\* leaves the history, the rate limiter and everything else of the log as it
\* was; total is the history's length, byType and bySeverity count each type
\* and severity exactly and sum to total, and recent <= total; called right
\* after clearErrorHistory it returns total 0, empty byType, empty bySeverity
\* and recent 0.
C14_StatsPure ==
    [][StatsStep =>
          /\ UNCHANGED handlerVars
          /\ StatsExact
          /\ ret.op = "clearErrorHistory" =>
                 result'.value = [total |-> 0, byType |-> <<>>,
                                  bySeverity |-> <<>>, recent |-> 0]]_vars

\* C14's case: getErrorStats has returned counts for a history of three
\* events of two types and two severities, one of them an hour old or older.
C14_Witness ==
    /\ result.op = "getErrorStats"
    /\ result.value = getErrorStats(state, now)
    /\ result.value.total = 3
    /\ Cardinality(DOMAIN result.value.byType) = 2
    /\ Cardinality(DOMAIN result.value.bySeverity) = 2
    /\ result.value.recent \in 1..2

\* The step is a call of hasRecentErrors that returns something new to its
\* caller.
RecentStep ==
    result' # result /\ result'.op = "hasRecentErrors"

\* C15: hasRecentErrors(m) returns true exactly when some event of the history
\* has a timestamp t with now - m minutes <= t <= now, both bounds included,
\* and the call leaves the history as it was.
C15_RecentInclusive ==
    [][RecentStep =>
          /\ state'.errorHistory = state.errorHistory
          /\ result'.value =
                 \E i \in DOMAIN state.errorHistory :
                     LET t == getTime(state.errorHistory[i].timestamp)
                     IN  /\ now - result'.minutes * MinuteMs <= t
                         /\ t <= now]_vars

\* C16: the configuration is set once: once the first init has completed, no
\* step changes config or installs a global handler (a later init with other
\* options included), and config changes in no step but the one that
\* initialises: no operation of the pipeline modifies it.
C16_ConfigSetOnce ==
    [][/\ state.isInitialized =>
             (config' = config /\ installed' = installed)
       /\ config' # config =>
             (~state.isInitialized /\ state'.isInitialized)]_vars

\* C16's case: init has set a configuration that is not the default one, its
\* handlers are installed once, and the pipeline has run since: three reports,
\* one of them dropped, a query, and clearErrorHistory last.
C16_Witness ==
    /\ state.isInitialized
    /\ config # DefaultConfig
    /\ installed = [onerror |-> 1, unhandledrejection |-> 1]
    /\ calls = MaxCalls /\ generated < calls
    /\ result.op # "none"
    /\ ret.op = "clearErrorHistory"

\* C17: after every call cacheResource(key, resource, maxSize) with
\* maxSize >= 1, whatever maxSize earlier calls used, the cache holds at most
\* maxSize entries and getResource(key) returns the resource just stored.
C17_CacheWithinMaxSize ==
    (cacheRet.op = "cacheResource" /\ cacheRet.maxSize >= 1) =>
        /\ Len(cache) <= cacheRet.maxSize
        /\ MapGet(cache, cacheRet.key) = cacheRet.resource

\* The step is a call of cacheResource.
StoreStep ==
    cacheRet' # cacheRet /\ cacheRet'.op = "cacheResource"

\* C18: cacheResource on a key the cache has only replaces that key's
\* resource and removes no other key, even when the cache is full; an entry is
\* evicted only when a new key is stored in a full cache, and it is then the
\* entry inserted earliest; getResource changes nothing in the cache.
C18_UpdateEvictsNothing ==
    [][/\ StoreStep =>
             LET key == cacheRet'.key
                 new == [key |-> key, resource |-> cacheRet'.resource]
             IN  IF key \in Keys(cache)
                 THEN /\ Keys(cache') = Keys(cache)
                      /\ MapGet(cache', key) = new.resource
                      /\ \A k \in Keys(cache) \ {key} :
                             MapGet(cache', k) = MapGet(cache, k)
                 ELSE IF Len(cache) >= cacheRet'.maxSize
                      THEN cache' = Append(Tail(cache), new)
                      ELSE cache' = Append(cache, new)
       /\ (cacheRet' # cacheRet /\ cacheRet'.op = "getResource") =>
             cache' = cache]_vars

\* The step is the one in which call c of preloadImages returns.
Returns(c) ==
    /\ preloads'[c].done
    /\ c \in DOMAIN preloads => ~preloads[c].done

\* Every image of the call has loaded.
AllLoaded(call) ==
    \A i \in DOMAIN call.status : call.status[i] = "loaded"

\* The image the call made for the last occurrence of this url in its urls.
LastImage(call, url) ==
    LET last == CHOOSE j \in DOMAIN call.urls :
                    /\ call.urls[j] = url
                    /\ \A k \in DOMAIN call.urls : call.urls[k] = url => k <= j
    IN  call.images[last]

\* A call that returns after a failure returns an empty list, having warned,
\* and leaves the cache as it was; and no step of a call but its return
\* changes the cache.
NothingOnFailure ==
    \A c \in DOMAIN preloads' :
        IF Returns(c)
        THEN ~AllLoaded(preloads'[c]) =>
                 /\ preloads'[c].value = <<>>
                 /\ preloads'[c].warned
                 /\ cache' = cache
        ELSE cache' = cache

C20_NoCallbackAfterOff ==
    [][Len(invoked') > Len(invoked) =>
          invoked'[Len(invoked')].callback \notin removed]_vars

====
